---- MODULE Spec2Model ----
(***************************************************************************)
(* The multi-core dispatcher of src/src/main.cpp and the Process record of *)
(* src/src/process.cpp (second revision in the file, lines 126-415), as a  *)
(* state machine: one coordinator (main), one worker per core              *)
(* (coreRunProcesses) and the millisecond clock (currentTime).             *)
(*                                                                         *)
(* Granularity.  A critical section (a lock_guard block) is one step, or   *)
(* several steps that keep `mutex` when the code spins inside it.  The     *)
(* statements a worker executes on its process outside the lock are        *)
(* separate steps wherever another thread can read or write the same       *)
(* fields in between; a statement that only reads or writes what no other  *)
(* thread touches is joined to the step before it.  The clock may advance  *)
(* between any two steps.  A local that the code does not read again       *)
(* (currTime, lastContextTime, readySize) is cleared or not kept.          *)
(*                                                                         *)
(* Arrays are indexed from 0 as in the code.  processes[i] of the code is  *)
(* process i+1 here, so that 0 can stand for the NULL pointer.             *)
(***************************************************************************)
EXTENDS Integers, Sequences, FiniteSets, TLC

\* ---------------------------------------------------------------- bounds
\* 32-bit words are scaled down to words of Wrap values (uint32_t: 0..Wrap-1).
Wrap == 64
\* The clock is followed for MaxTime milliseconds after program start.
MaxTime == 5
\* config->cores
NumCores == 2
\* config->context_switch
ContextSwitch == 0

\* ------------------------------------------------------------- constants
NULL == 0
NoCore == -1
\* uint16_t currentBurst = -1
NoBurst == 65535

Cores == 0 .. (NumCores - 1)
Algorithms == {"FCFS", "SJF", "RR", "PP"}
States == {"NotStarted", "Ready", "Running", "IO", "Terminated"}

\* The value of currentTime() at program start: in the lower or in the upper
\* half of the word.
LowClock == Wrap \div 4
HighClock == 3 * (Wrap \div 4)
\* What a read past the end of a heap array may return.
Garbage == {0, Wrap - 1}

ProcessDetails(st, pr, bursts) ==
    [start_time |-> st, priority |-> pr, num_bursts |-> Len(bursts),
     burst_times |-> [i \in 0 .. (Len(bursts) - 1) |-> bursts[i + 1]]]

\* config->processes: the workloads the model runs.
\* Two single-burst processes, the longer and less urgent one configured first.
TwoSingles == << ProcessDetails(0, 2, <<2>>), ProcessDetails(0, 0, <<1>>) >>
\* A CPU-I/O-CPU process and a more urgent single-burst one that arrives later.
BurstsAndArrival == << ProcessDetails(0, 1, <<1, 1, 2>>), ProcessDetails(1, 0, <<1>>) >>

\* One process whose CPU bursts last exactly one time slice of one millisecond.
SliceLongBursts == << ProcessDetails(0, 0, <<1, 1, 1>>) >>

\* A process that needs three time slices and a short one.
LongAndShort == << ProcessDetails(0, 0, <<3>>), ProcessDetails(0, 0, <<1>>) >>
\* One process that needs three time slices of one millisecond.
ThreeSlices == << ProcessDetails(0, 0, <<3>>) >>

\* The configurations (configuration file, clock at start) the model runs;
\* ts is config->time_slice, which only RR reads.  The fields launch_time,
\* launched, turn_time, wait_time, waitTimeNow, wait_times and
\* into_queue_time of a Process serve the report of printProcessOutput only:
\* no scheduling decision depends on them.  The runs with acct
\* FALSE leave them at their initial values, which changes nothing else in
\* the run.  n is config->cores, the number of worker threads launched.
Config(alg, ts, wl, t0, n, acct) ==
    [algorithm |-> alg, time_slice |-> ts, processes |-> wl, start |-> t0,
     cores |-> n, accounting |-> acct]
Configs ==
    { Config("FCFS", 1, BurstsAndArrival, LowClock, NumCores, FALSE),
      Config("SJF", 1, TwoSingles, LowClock, NumCores, FALSE),
      Config("RR", 2, TwoSingles, HighClock, NumCores, FALSE),
      Config("RR", 1, BurstsAndArrival, LowClock, NumCores, FALSE),
      Config("RR", 1, SliceLongBursts, LowClock, 1, FALSE),
      Config("RR", 1, ThreeSlices, LowClock, 1, TRUE),
      Config("RR", 1, LongAndShort, LowClock, 1, TRUE),
      Config("PP", 1, TwoSingles, LowClock, NumCores, FALSE),
      Config("PP", 1, BurstsAndArrival, LowClock, NumCores, FALSE),
      Config("PP", 1, LongAndShort, LowClock, 1, FALSE) }

\* ------------------------------------------------------------ arithmetic
\* uint32_t arithmetic
U(x) == x % Wrap
\* conversion of a uint32_t result to int32_t
S(x) == IF U(x) >= (Wrap + 1) \div 2 THEN U(x) - Wrap ELSE U(x)
\* uint16_t current_burst++
Inc16(x) == (x + 1) % (NoBurst + 1)

\* arr[i] of a heap array of n words; g is what a read past its end returns
At(arr, n, i, g) == IF i >= 0 /\ i < n THEN arr[i] ELSE g

VARIABLES
    now,               \* currentTime()
    programStartTime,  \* main: programStartTime
    algorithm,         \* shared_data->algorithm
    time_slice,        \* shared_data->time_slice
    accounting,        \* the run follows the fields that only the report reads
    proc,              \* the Process objects, by index into `processes`
    ready_queue,       \* shared_data->ready_queue
    terminated,        \* shared_data->terminated
    all_terminated,    \* shared_data->all_terminated
    mutex,             \* holder of shared_data->mutex
    wk,                \* the locals and position of each coreRunProcesses
    main,              \* the locals and position of main
    crashed,           \* the program has aborted (undefined behaviour hit)
    ranFor,            \* measured: ms each process was Running, per burst index
    readyFor,          \* measured: ms each process was Ready
    shown              \* measured: the figures of each process at the last report

vars == << now, programStartTime, algorithm, time_slice, accounting, proc, ready_queue, terminated,
           all_terminated, mutex, wk, main, crashed, ranFor, readyFor, shown >>

Procs == DOMAIN proc
Free == << "free" >>
Main == << "main" >>
Core(w) == << "core", w >>

\* ------------------------------------------------------- Process (record)
\* Process::Process; launch_time is assigned for a process that starts Ready
\* and is left uninitialized (g) otherwise
NewProcess(d, current_time, g) ==
    LET total == U(LET RECURSIVE Sum(_)
                       Sum(i) == IF i >= d.num_bursts THEN 0
                                 ELSE d.burst_times[i] + Sum(i + 2)
                   IN Sum(0))
    IN [ start_time |-> d.start_time, num_bursts |-> d.num_bursts,
         priority |-> d.priority,
         current_burst |-> 0,
         burst_times |-> d.burst_times, cpu_io_times |-> d.burst_times,
         state |-> IF d.start_time = 0 THEN "Ready" ELSE "NotStarted",
         core |-> NoCore,
         launch_time |-> IF ~accounting THEN 0
                         ELSE IF d.start_time = 0 THEN current_time ELSE g,
         launched |-> FALSE, turn_time |-> 0, wait_time |-> 0,
         into_queue_time |-> 0, waitTimeNow |-> 0, wait_times |-> << >>,
         cpu_time |-> 0, remain_time |-> S(total), total_remain_time |-> total,
         burstStartTime |-> 0, burstTimeElapsed |-> 0,
         rrFlag |-> 0, roundRobinStartTime |-> 0, ppTime |-> 0, ppFlag |-> 0 ]

\* Process::setState
setState(pr, new_state) ==
    [pr EXCEPT !.state = new_state,
               !.wait_times = IF accounting /\ pr.state = "Ready" /\ new_state = "Running"
                              THEN Append(@, pr.waitTimeNow) ELSE @]
\* Process::setIntoQueueTime
setIntoQueueTime(pr, t) == [pr EXCEPT !.into_queue_time = IF accounting THEN t ELSE @]
\* Process::setLaunched and Process::setLaunchTime
setLaunched(pr, t) ==
    IF accounting THEN [pr EXCEPT !.launched = TRUE, !.launch_time = t] ELSE pr
\* Process::setCpuCore
setCpuCore(pr, c) == [pr EXCEPT !.core = c]
\* Process::updateCurrentBurst
updateCurrentBurst(pr) == [pr EXCEPT !.current_burst = Inc16(@)]
\* Process::getCurrentBurstTime
getCurrentBurstTime(pr, g) == At(pr.cpu_io_times, pr.num_bursts, pr.current_burst, g)
\* Process::setBurstStartTime
setBurstStartTime(pr, t) == [pr EXCEPT !.burstStartTime = t]
\* Process::resetBurstTimeElapsed
resetBurstTimeElapsed(pr) == [pr EXCEPT !.burstTimeElapsed = 0]
\* Process::updateBurstTime
updateBurstTime(pr, idx, delta) ==
    IF idx < pr.num_bursts
    THEN [pr EXCEPT !.burst_times[idx] = U(@ - delta)]
    ELSE pr   \* a write past the end of burst_times: no field of the model changes

\* the loop `for (i = current_burst-2; i >= 0; i -= 2) sum += cpu_io_times[i]`
RECURSIVE BurstTimesSoFar(_, _, _)
BurstTimesSoFar(pr, i, g) ==
    IF i < 0 THEN 0
    ELSE At(pr.cpu_io_times, pr.num_bursts, i, g) + BurstTimesSoFar(pr, i - 2, g)

\* the loop `for (i = 0; i < wait_times.size(); i++) waitSums += wait_times.at(i)`
RECURSIVE WaitSums(_)
WaitSums(ws) == IF ws = << >> THEN 0 ELSE U(Head(ws) + WaitSums(Tail(ws)))

\* Process::updateProcess: turnaround, the three Running branches, Ready, IO
\* and Terminated
updateProcess(pr, t, g) ==
    LET cb == pr.current_burst
        cio == At(pr.cpu_io_times, pr.num_bursts, cb, g)
        bt == At(pr.burst_times, pr.num_bursts, cb, g)
        done == IF cio # bt THEN U(cio - bt) ELSE 0
        sofar == BurstTimesSoFar(pr, cb - 2, g)
        turn(r) ==
            IF accounting /\ r.state # "Terminated" /\ r.launch_time # 0
            THEN [r EXCEPT !.turn_time = U(t - r.launch_time)]
            ELSE r
        ready(r) ==
            IF accounting /\ r.state = "Ready"
            THEN [r EXCEPT !.waitTimeNow = U(t - r.into_queue_time),
                           !.wait_time = U(WaitSums(r.wait_times) + U(t - r.into_queue_time))]
            ELSE r
        plain(r) ==
            IF r.state = "Running" /\ r.rrFlag = 0
            THEN LET c == S(sofar + U(t - r.burstStartTime))
                 IN [r EXCEPT !.cpu_time = c,
                              !.remain_time = S(r.total_remain_time - c),
                              !.burstTimeElapsed = U(t - r.burstStartTime)]
            ELSE r
        rr(r) ==
            IF r.state = "Running" /\ r.rrFlag = 1
            THEN LET c == S(done + sofar + U(t - r.roundRobinStartTime))
                 IN [r EXCEPT !.cpu_time = c,
                              !.remain_time = S(r.total_remain_time - c),
                              !.burstTimeElapsed = U(done + U(t - r.roundRobinStartTime))]
            ELSE r
        pp(r) ==
            IF r.state = "Running" /\ r.ppFlag = 1
            THEN LET c == S(done + sofar + U(t - r.ppTime))
                 IN [r EXCEPT !.cpu_time = c,
                              !.remain_time = S(r.total_remain_time - c),
                              !.burstTimeElapsed = U(done + U(t - r.ppTime))]
            ELSE r
        io(r) ==
            IF r.state = "IO"
            THEN [r EXCEPT !.burstTimeElapsed = U(t - r.burstStartTime)]
            ELSE r
        term(r) ==
            IF r.state = "Terminated" THEN [r EXCEPT !.remain_time = 0] ELSE r
    IN term(io(ready(pp(rr(plain(turn(pr)))))))

\* SjfComparator::operator()
SjfComparator(p1, p2) == p1.remain_time < p2.remain_time
\* PpComparator::operator()
PpComparator(p1, p2) == p1.priority < p2.priority

\* std::list::sort(comp): a stable sort
Comp(alg, ps, a, b) ==
    IF alg = "SJF" THEN SjfComparator(ps[a], ps[b]) ELSE PpComparator(ps[a], ps[b])
RECURSIVE SortInsert(_, _, _, _)
SortInsert(alg, ps, x, s) ==
    IF s = << >> THEN << x >>
    ELSE IF Comp(alg, ps, x, Head(s)) THEN << x >> \o s
    ELSE << Head(s) >> \o SortInsert(alg, ps, x, Tail(s))
RECURSIVE ListSort(_, _, _)
ListSort(alg, ps, s) ==
    IF s = << >> THEN << >>
    ELSE SortInsert(alg, ps, s[Len(s)], ListSort(alg, ps, SubSeq(s, 1, Len(s) - 1)))

\* The figures of a process that an observer holding the mutex reads
\* (printProcessOutput reads the three times)
Figures(pr) ==
    [turn_time |-> pr.turn_time, wait_time |-> pr.wait_time,
     cpu_time |-> pr.cpu_time, current_burst |-> pr.current_burst]

\* ------------------------------------------------------------------ Init
\* main, lines 35-79: the processes are built, those with start_time 0 are
\* queued in configuration order, and the workers are launched.
Init ==
    \E cfg \in Configs, g \in Garbage :
      LET wl == cfg.processes
          t0 == cfg.start
      IN
        /\ now = t0
        /\ programStartTime = t0
        /\ algorithm = cfg.algorithm
        /\ time_slice = cfg.time_slice
        /\ accounting = cfg.accounting
        /\ proc = [i \in 1 .. Len(wl) |->
                      LET pr == NewProcess(wl[i], t0, g)
                      IN IF pr.state = "Ready" THEN setIntoQueueTime(pr, t0) ELSE pr]
        /\ ready_queue = SelectSeq([i \in 1 .. Len(wl) |-> i],
                                   LAMBDA i : wl[i].start_time = 0)
        /\ terminated = << >>
        /\ all_terminated = FALSE
        /\ mutex = Free
        /\ wk = [w \in Cores |->
                   [pc |-> IF w < cfg.cores THEN "loop" ELSE "absent", p |-> NULL, inRobin |-> FALSE, inProcess |-> FALSE,
                    currentBurst |-> NoBurst, currentBurstTime |-> 0,
                    lastContextTime |-> 0]]
        /\ main = [pc |-> "test", currTime |-> 0, half_time |-> 0, end_time |-> 0]
        /\ crashed = FALSE
        /\ ranFor = [i \in 1 .. Len(wl) |-> [b \in 0 .. (wl[i].num_bursts - 1) |-> 0]]
        /\ readyFor = [i \in 1 .. Len(wl) |-> 0]
        /\ shown = [i \in 1 .. Len(wl) |-> Figures(NewProcess(wl[i], t0, g))]

\* ----------------------------------------------------------------- clock
\* currentTime(): the wall clock advances by a millisecond
Tick ==
    /\ ~crashed
    /\ now < programStartTime + MaxTime
    /\ now' = now + 1
    /\ ranFor' = [p \in Procs |->
                    LET b == proc[p].current_burst
                    IN IF accounting /\ proc[p].state = "Running" /\ b < proc[p].num_bursts
                       THEN [ranFor[p] EXCEPT ![b] = @ + 1] ELSE ranFor[p]]
    /\ readyFor' = [p \in Procs |->
                      IF accounting /\ proc[p].state = "Ready"
                      THEN readyFor[p] + 1 ELSE readyFor[p]]
    /\ UNCHANGED << programStartTime, algorithm, time_slice, accounting, proc, ready_queue,
                    terminated, all_terminated, mutex, wk, main, crashed, shown >>

\* ------------------------------------------------------------ coordinator
\* main, lines 93-94: the sweep takes the mutex and reads the clock.  From the
\* second iteration on, printProcessOutput (lines 150, 402-429: the table is
\* read under the mutex, nothing is written) and usleep precede it.
MainLock ==
    /\ ~crashed
    /\ main.pc = "lock"
    /\ mutex = Free
    /\ mutex' = Main
    /\ main' = [main EXCEPT !.pc = "sweep", !.currTime = now]
    /\ shown' = IF accounting THEN [p \in Procs |-> Figures(proc[p])] ELSE shown
    /\ UNCHANGED << now, programStartTime, algorithm, time_slice, accounting, ranFor,
                    readyFor, proc, ready_queue, terminated, all_terminated, wk, crashed >>

\* A sweep that starts a process whatever state it is in
ShouldStart_NoStateTest(pr, currTime) ==
    pr.start_time <= U(currTime - programStartTime)

\* main, lines 99-102: state == NotStarted and
\* getStartTime() <= (currTime - programStartTime)
ShouldStart(pr, currTime) ==
    pr.state = "NotStarted" /\ pr.start_time <= U(currTime - programStartTime)

\* main, lines 97-120: the body of the loop for processes[i]; st holds the
\* processes and the ready queue as the iterations before it left them
SweepProcess(st, i, currTime, g) ==
    LET pr == st.proc[i]
        state == pr.state
        started == setIntoQueueTime(setState(pr, "Ready"), now)
        seen == updateProcess(pr, now, g)
        woken == setIntoQueueTime(setState(updateCurrentBurst(seen), "Ready"), now)
    IN  IF ShouldStart(pr, currTime)
        THEN [proc |-> [st.proc EXCEPT ![i] = started],
              ready_queue |-> Append(st.ready_queue, i)]
        ELSE IF state = "NotStarted"
        THEN st
        ELSE IF state = "Ready"
        THEN [st EXCEPT !.proc[i] = seen]
        ELSE IF state = "IO"
        THEN IF seen.burstTimeElapsed >= getCurrentBurstTime(seen, g)
             THEN [proc |-> [st.proc EXCEPT ![i] = woken],
                   ready_queue |-> Append(st.ready_queue, i)]
             ELSE [st EXCEPT !.proc[i] = seen]
        ELSE st

\* main, lines 95-121: for (i = 0; i < processes.size(); i++)
RECURSIVE SweepFrom(_, _, _, _)
SweepFrom(st, i, currTime, g) ==
    IF i > Len(st.proc) THEN st
    ELSE SweepFrom(SweepProcess(st, i, currTime, g), i + 1, currTime, g)

\* main, line 135: terminated.size() >= processes.size()/2 && half_time == 0
HalfDone == Len(terminated) >= Len(proc) \div 2 /\ main.half_time = 0
\* An all-done test that reuses the half-done threshold
AllDone_AtHalf == Len(terminated) >= Len(proc) \div 2
\* main, line 139: processes.size() == terminated.size()
AllDone == Len(proc) = Len(terminated)

\* A sweep that sorts the ready queue under every policy
SortReadyQueue_EveryPolicy(ps, q) ==
    ListSort(IF algorithm = "SJF" THEN "SJF" ELSE "PP", ps, q)

\* main, lines 125-132: the ready queue is sorted under SJF and under PP only
SortReadyQueue(ps, q) ==
    IF algorithm \in {"SJF", "PP"} THEN ListSort(algorithm, ps, q) ELSE q

\* main, lines 95-144: the loop over the processes, the sort, the half-done
\* and all-done tests, and the unlock.  The workers' unlocked statements can
\* precede the sweep while main holds the mutex (after MainLock).
\* currTime is dead after the sweep and is cleared.
MainSweep ==
    /\ ~crashed
    /\ main.pc = "sweep"
    /\ \E g \in Garbage :
        LET st == SweepFrom([proc |-> proc, ready_queue |-> ready_queue], 1,
                            main.currTime, g)
        IN /\ proc' = st.proc
           /\ ready_queue' = SortReadyQueue(st.proc, st.ready_queue)
    /\ all_terminated' = (AllDone \/ all_terminated)
    /\ main' = [main EXCEPT !.pc = "test", !.currTime = 0,
                            !.half_time = IF HalfDone THEN now ELSE @,
                            !.end_time = IF AllDone THEN now ELSE @]
    /\ mutex' = Free
    /\ UNCHANGED << now, programStartTime, algorithm, time_slice, accounting, ranFor,
                    readyFor, shown, terminated, wk, crashed >>

\* main, line 86: the loop test reads all_terminated; no lock is taken for it
MainTest ==
    /\ ~crashed
    /\ main.pc = "test"
    /\ main' = [main EXCEPT !.pc = IF all_terminated THEN "join" ELSE "lock"]
    /\ UNCHANGED << now, programStartTime, algorithm, time_slice, accounting, ranFor,
                    readyFor, shown, proc, ready_queue, terminated,
                    all_terminated, mutex, wk, crashed >>

\* main, lines 158-161: join the workers
MainJoin ==
    /\ ~crashed
    /\ main.pc = "join"
    /\ \A w \in Cores : wk[w].pc \in {"done", "absent"}
    /\ main' = [main EXCEPT !.pc = "exit"]
    /\ UNCHANGED << now, programStartTime, algorithm, time_slice, accounting, ranFor,
                    readyFor, shown, proc, ready_queue, terminated,
                    all_terminated, mutex, wk, crashed >>

\* ---------------------------------------------------------------- worker
Held(w) == wk[w].p
\* What every worker step leaves alone besides proc, the collections and wk.
WorkerFrame == UNCHANGED << now, programStartTime, algorithm, time_slice, accounting, ranFor,
                    readyFor, shown, all_terminated, main >>

\* coreRunProcesses, lines 228-236 with p == NULL, or with all_terminated set:
\* the loop test; readySize is read under the mutex, the mutex is released,
\* and readySize > 0 && p == NULL is tested.  With p == NULL and nothing
\* queued none of the blocks of lines 256-394 runs.
WorkerLoop(w) ==
    /\ ~crashed
    /\ wk[w].pc = "loop"
    /\ all_terminated \/ (Held(w) = NULL /\ mutex = Free)
    /\ LET readySize == Len(ready_queue)
       IN wk' = [wk EXCEPT ![w].pc = IF all_terminated THEN "done"
                                     ELSE IF readySize > 0 THEN "pop"
                                     ELSE "loop"]
    /\ WorkerFrame
    /\ UNCHANGED << proc, ready_queue, terminated, mutex, crashed >>

\* coreRunProcesses, lines 237-244: front() and pop_front() under the mutex.
\* On an empty list both are undefined: front() yields no Process and
\* pop_front() frees the list's own sentinel, so the program aborts.
WorkerPop(w) ==
    /\ ~crashed
    /\ wk[w].pc = "pop"
    /\ mutex = Free
    /\ IF ready_queue = << >>
       THEN /\ crashed' = TRUE
            /\ UNCHANGED << wk, ready_queue >>
       ELSE /\ wk' = [wk EXCEPT ![w].p = Head(ready_queue), ![w].pc = "setRunning"]
            /\ ready_queue' = Tail(ready_queue)
            /\ UNCHANGED crashed
    /\ WorkerFrame
    /\ UNCHANGED << proc, terminated, mutex >>

\* coreRunProcesses, line 245: p->setState(Running)
WorkerSetRunning(w) ==
    /\ ~crashed
    /\ wk[w].pc = "setRunning"
    /\ proc' = [proc EXCEPT ![Held(w)] = setState(@, "Running")]
    /\ wk' = [wk EXCEPT ![w].pc = "dispatch"]
    /\ WorkerFrame
    /\ UNCHANGED << ready_queue, terminated, mutex, crashed >>

\* A worker is about to run one of the blocks of lines 263-394 on its process:
\* straight after the dispatch, or in a later iteration, after the loop test
\* of line 228 and the critical section of lines 230-233.
Observing(w) ==
    \/ wk[w].pc = "dispatch"
    \/ wk[w].pc = "loop" /\ Held(w) # NULL /\ ~all_terminated /\ mutex = Free

\* A dispatch that records core 0 whichever worker runs it
Dispatched_OnCoreZero(w, pr) ==
    IF wk[w].pc = "dispatch"
    THEN LET c == setCpuCore(pr, 0)
             l == IF c.launched THEN c ELSE setLaunched(c, now)
             a == resetBurstTimeElapsed(l)
         IN IF wk[w].currentBurst # a.current_burst THEN setBurstStartTime(a, now) ELSE a
    ELSE pr

\* coreRunProcesses, lines 246-255, in the iteration that popped p: core, burst clock
Dispatched(w, pr) ==
    IF wk[w].pc = "dispatch"
    THEN LET c == setCpuCore(pr, w)
             l == IF c.launched THEN c ELSE setLaunched(c, now)
             a == resetBurstTimeElapsed(l)
         IN IF wk[w].currentBurst # a.current_burst THEN setBurstStartTime(a, now) ELSE a
    ELSE pr

\* The busy-wait `while (context_switch >= currentTime() - lastContextTime){}`
\* of lines 275, 286, 309, 320, 334, 377, 389, outside the mutex
WorkerContextSwitch(w) ==
    /\ ~crashed
    /\ wk[w].pc = "switch"
    /\ ~ (ContextSwitch >= U(now - wk[w].lastContextTime))
    /\ wk' = [wk EXCEPT ![w].pc = "loop", ![w].lastContextTime = 0]
    /\ WorkerFrame
    /\ UNCHANGED << proc, ready_queue, terminated, mutex, crashed >>

\* ---- First Come First Serve and Shortest Job First, lines 263-288
\* lines 263-265, 277: observe the process and pick the branch
FcfsObserve(w) ==
    /\ ~crashed
    /\ Observing(w)
    /\ algorithm \in {"FCFS", "SJF"}
    /\ \E g \in Garbage :
        LET p == Held(w)
            r == updateProcess(Dispatched(w, proc[p]), now, g)
        IN /\ proc' = [proc EXCEPT ![p] = r]
           /\ wk' = [wk EXCEPT ![w].pc =
                        IF r.remain_time <= 0 THEN "fcfsTerm1"
                        ELSE IF r.burstTimeElapsed > getCurrentBurstTime(r, g) THEN "fcfsIo1"
                        ELSE "loop"]
    /\ WorkerFrame
    /\ UNCHANGED << ready_queue, terminated, mutex, crashed >>

\* line 266: p->setState(Terminated)
FcfsTerminate1(w) ==
    /\ ~crashed
    /\ wk[w].pc = "fcfsTerm1"
    /\ proc' = [proc EXCEPT ![Held(w)] = setState(@, "Terminated")]
    /\ wk' = [wk EXCEPT ![w].pc = "fcfsTerm2"]
    /\ WorkerFrame
    /\ UNCHANGED << ready_queue, terminated, mutex, crashed >>

\* lines 267-274: p->setCpuCore(-1); p->updateProcess; then
\* terminated.push_back(p) under the mutex; p = NULL
FcfsTerminate2(w) ==
    /\ ~crashed
    /\ wk[w].pc = "fcfsTerm2"
    /\ mutex = Free
    /\ \E g \in Garbage :
        proc' = [proc EXCEPT ![Held(w)] = updateProcess(setCpuCore(@, NoCore), now, g)]
    /\ terminated' = Append(terminated, Held(w))
    /\ wk' = [wk EXCEPT ![w].p = NULL, ![w].lastContextTime = now, ![w].pc = "switch"]
    /\ WorkerFrame
    /\ UNCHANGED << ready_queue, mutex, crashed >>

\* line 278: p->setState(IO)
FcfsIo1(w) ==
    /\ ~crashed
    /\ wk[w].pc = "fcfsIo1"
    /\ proc' = [proc EXCEPT ![Held(w)] = setState(@, "IO")]
    /\ wk' = [wk EXCEPT ![w].pc = "fcfsIo2"]
    /\ WorkerFrame
    /\ UNCHANGED << ready_queue, terminated, mutex, crashed >>

\* line 279: p->updateCurrentBurst()
FcfsIo2(w) ==
    /\ ~crashed
    /\ wk[w].pc = "fcfsIo2"
    /\ proc' = [proc EXCEPT ![Held(w)] = updateCurrentBurst(@)]
    /\ wk' = [wk EXCEPT ![w].pc = "fcfsIo3"]
    /\ WorkerFrame
    /\ UNCHANGED << ready_queue, terminated, mutex, crashed >>

\* lines 280-285: the I/O burst's clock starts; p->setCpuCore(-1); p = NULL
FcfsIo3(w) ==
    /\ ~crashed
    /\ wk[w].pc = "fcfsIo3"
    /\ \E g \in Garbage :
        proc' = [proc EXCEPT ![Held(w)] =
                    setCpuCore(updateProcess(resetBurstTimeElapsed(
                                   setBurstStartTime(@, now)), now, g), NoCore)]
    /\ wk' = [wk EXCEPT ![w].p = NULL, ![w].lastContextTime = now, ![w].pc = "switch"]
    /\ WorkerFrame
    /\ UNCHANGED << ready_queue, terminated, mutex, crashed >>

\* ---- Round Robin, lines 290-336
\* A policy test that sends every policy into the Round Robin block
RunsRoundRobin_EveryPolicy == TRUE

\* line 290: shared_data->algorithm == ScheduleAlgorithm::RR
RunsRoundRobin == algorithm = "RR"

\* lines 256-258, 290-299, 311, 322: flag, slice start, observe, pick the branch
RrObserve(w) ==
    /\ ~crashed
    /\ Observing(w)
    /\ RunsRoundRobin
    /\ \E g \in Garbage :
        LET p == Held(w)
            flagged == [Dispatched(w, proc[p]) EXCEPT !.rrFlag = 1]
            fresh == ~wk[w].inRobin
            started == IF fresh THEN [flagged EXCEPT !.roundRobinStartTime = now]
                       ELSE flagged
            currentBurstTime == IF fresh THEN getCurrentBurstTime(started, g)
                                ELSE wk[w].currentBurstTime
            r == updateProcess(started, now, g)
        IN /\ proc' = [proc EXCEPT ![p] = r]
           /\ wk' = [wk EXCEPT
                 ![w].inRobin = TRUE,
                 ![w].currentBurst = IF fresh THEN started.current_burst ELSE @,
                 ![w].currentBurstTime = currentBurstTime,
                 ![w].pc = IF r.remain_time <= 0 THEN "rrTerm1"
                           ELSE IF r.burstTimeElapsed > currentBurstTime THEN "rrIo1"
                           ELSE IF U(now - r.roundRobinStartTime) >= time_slice THEN "rrExpire1"
                           ELSE "loop"]
    /\ WorkerFrame
    /\ UNCHANGED << ready_queue, terminated, mutex, crashed >>

\* line 300: p->setState(Terminated)
RrTerminate1(w) ==
    /\ ~crashed
    /\ wk[w].pc = "rrTerm1"
    /\ proc' = [proc EXCEPT ![Held(w)] = setState(@, "Terminated")]
    /\ wk' = [wk EXCEPT ![w].pc = "rrTerm2"]
    /\ WorkerFrame
    /\ UNCHANGED << ready_queue, terminated, mutex, crashed >>

\* lines 301-308: core, updateProcess, terminated.push_back(p) under the
\* mutex, p = NULL; inRobin is left as it is
RrTerminate2(w) ==
    /\ ~crashed
    /\ wk[w].pc = "rrTerm2"
    /\ mutex = Free
    /\ \E g \in Garbage :
        proc' = [proc EXCEPT ![Held(w)] = updateProcess(setCpuCore(@, NoCore), now, g)]
    /\ terminated' = Append(terminated, Held(w))
    /\ wk' = [wk EXCEPT ![w].p = NULL, ![w].lastContextTime = now, ![w].pc = "switch"]
    /\ WorkerFrame
    /\ UNCHANGED << ready_queue, mutex, crashed >>

\* line 312: p->setState(IO)
RrIo1(w) ==
    /\ ~crashed
    /\ wk[w].pc = "rrIo1"
    /\ proc' = [proc EXCEPT ![Held(w)] = setState(@, "IO")]
    /\ wk' = [wk EXCEPT ![w].pc = "rrIo2"]
    /\ WorkerFrame
    /\ UNCHANGED << ready_queue, terminated, mutex, crashed >>

\* line 313: p->updateCurrentBurst()
RrIo2(w) ==
    /\ ~crashed
    /\ wk[w].pc = "rrIo2"
    /\ proc' = [proc EXCEPT ![Held(w)] = updateCurrentBurst(@)]
    /\ wk' = [wk EXCEPT ![w].pc = "rrIo3"]
    /\ WorkerFrame
    /\ UNCHANGED << ready_queue, terminated, mutex, crashed >>

\* lines 314-319: the I/O burst's clock starts; core; p = NULL; inRobin = false
RrIo3(w) ==
    /\ ~crashed
    /\ wk[w].pc = "rrIo3"
    /\ proc' = [proc EXCEPT ![Held(w)] =
                   setCpuCore(resetBurstTimeElapsed(setBurstStartTime(@, now)), NoCore)]
    /\ wk' = [wk EXCEPT ![w].p = NULL, ![w].inRobin = FALSE,
                        ![w].lastContextTime = now, ![w].pc = "switch"]
    /\ WorkerFrame
    /\ UNCHANGED << ready_queue, terminated, mutex, crashed >>

\* lines 323-324: p->setState(Ready); the time run is taken off the burst
RrExpire1(w) ==
    /\ ~crashed
    /\ wk[w].pc = "rrExpire1"
    /\ proc' = [proc EXCEPT ![Held(w)] =
                   setIntoQueueTime(
                       updateBurstTime(setState(@, "Ready"), @.current_burst,
                                       U(now - @.roundRobinStartTime)), now)]
    /\ wk' = [wk EXCEPT ![w].pc = "rrExpire2"]
    /\ WorkerFrame
    /\ UNCHANGED << ready_queue, terminated, mutex, crashed >>

\* lines 325-333: core; ready_queue.push_back(p) under the mutex; p = NULL;
\* inRobin = false
RrExpire2(w) ==
    /\ ~crashed
    /\ wk[w].pc = "rrExpire2"
    /\ mutex = Free
    /\ proc' = [proc EXCEPT ![Held(w)] = setCpuCore(@, NoCore)]
    /\ ready_queue' = Append(ready_queue, Held(w))
    /\ wk' = [wk EXCEPT ![w].p = NULL, ![w].inRobin = FALSE,
                        ![w].lastContextTime = now, ![w].pc = "switch"]
    /\ WorkerFrame
    /\ UNCHANGED << terminated, mutex, crashed >>

\* ---- Preemptive Priority, lines 338-394
\* lines 259-261, 338-343: flag, episode start, observe
PpObserve(w) ==
    /\ ~crashed
    /\ Observing(w)
    /\ algorithm = "PP"
    /\ \E g \in Garbage :
        LET p == Held(w)
            flagged == [Dispatched(w, proc[p]) EXCEPT !.ppFlag = 1]
            started == IF ~wk[w].inProcess THEN [flagged EXCEPT !.ppTime = now]
                       ELSE flagged
        IN proc' = [proc EXCEPT ![p] = updateProcess(started, now, g)]
    /\ wk' = [wk EXCEPT ![w].inProcess = TRUE, ![w].pc = "ppLock"]
    /\ WorkerFrame
    /\ UNCHANGED << ready_queue, terminated, mutex, crashed >>

\* A preemption test that also fires on a head of equal priority
Preempts_OnEqual(next, pr) == next.priority <= pr.priority

\* line 350: next->getPriority() < p->getPriority()
Preempts(next, pr) == next.priority < pr.priority

\* lines 344-359 and 364-365, 379: under the mutex, the head of the ready
\* queue is compared with p.  A head of smaller priority value preempts p,
\* which is requeued, and the worker goes on to spin with the mutex held.
\* Otherwise the mutex is released and the branch is picked.
PpLock(w) ==
    /\ ~crashed
    /\ wk[w].pc = "ppLock"
    /\ mutex = Free
    /\ LET p == Held(w)
           pr == proc[p]
       IN IF ready_queue # << >> /\ Preempts(proc[Head(ready_queue)], pr)
          THEN /\ proc' = [proc EXCEPT ![p] =
                             setCpuCore(
                                 setIntoQueueTime(
                                     updateBurstTime(setState(pr, "Ready"),
                                                     pr.current_burst,
                                                     U(now - pr.ppTime)), now), NoCore)]
               /\ ready_queue' = Append(ready_queue, p)
               /\ mutex' = Core(w)
               /\ wk' = [wk EXCEPT ![w].p = NULL, ![w].inProcess = FALSE,
                                   ![w].lastContextTime = now, ![w].pc = "ppSpin"]
          ELSE /\ \E g \in Garbage :
                    wk' = [wk EXCEPT ![w].pc =
                              IF pr.remain_time <= 0 THEN "ppTerm1"
                              ELSE IF pr.burstTimeElapsed > getCurrentBurstTime(pr, g)
                              THEN "ppIo1"
                              ELSE "loop"]
               /\ UNCHANGED << proc, ready_queue, mutex >>
    /\ WorkerFrame
    /\ UNCHANGED << terminated, crashed >>

\* lines 360-363: the busy-wait inside the critical section, then the unlock
PpSpin(w) ==
    /\ ~crashed
    /\ wk[w].pc = "ppSpin"
    /\ ~ (ContextSwitch >= U(now - wk[w].lastContextTime))
    /\ mutex' = Free
    /\ wk' = [wk EXCEPT ![w].pc = "loop", ![w].lastContextTime = 0]
    /\ WorkerFrame
    /\ UNCHANGED << proc, ready_queue, terminated, crashed >>

\* line 366: p->setState(Terminated)
PpTerminate1(w) ==
    /\ ~crashed
    /\ wk[w].pc = "ppTerm1"
    /\ proc' = [proc EXCEPT ![Held(w)] = setState(@, "Terminated")]
    /\ wk' = [wk EXCEPT ![w].pc = "ppTerm2"]
    /\ WorkerFrame
    /\ UNCHANGED << ready_queue, terminated, mutex, crashed >>

\* lines 367-376: core, updateProcess, terminated.push_back(p) under the
\* mutex, p = NULL, inProcess = false
PpTerminate2(w) ==
    /\ ~crashed
    /\ wk[w].pc = "ppTerm2"
    /\ mutex = Free
    /\ \E g \in Garbage :
        proc' = [proc EXCEPT ![Held(w)] = updateProcess(setCpuCore(@, NoCore), now, g)]
    /\ terminated' = Append(terminated, Held(w))
    /\ wk' = [wk EXCEPT ![w].p = NULL, ![w].inProcess = FALSE,
                        ![w].lastContextTime = now, ![w].pc = "switch"]
    /\ WorkerFrame
    /\ UNCHANGED << ready_queue, mutex, crashed >>

\* line 380: p->setState(IO)
PpIo1(w) ==
    /\ ~crashed
    /\ wk[w].pc = "ppIo1"
    /\ proc' = [proc EXCEPT ![Held(w)] = setState(@, "IO")]
    /\ wk' = [wk EXCEPT ![w].pc = "ppIo2"]
    /\ WorkerFrame
    /\ UNCHANGED << ready_queue, terminated, mutex, crashed >>

\* line 381: p->updateCurrentBurst()
PpIo2(w) ==
    /\ ~crashed
    /\ wk[w].pc = "ppIo2"
    /\ proc' = [proc EXCEPT ![Held(w)] = updateCurrentBurst(@)]
    /\ wk' = [wk EXCEPT ![w].pc = "ppIo3"]
    /\ WorkerFrame
    /\ UNCHANGED << ready_queue, terminated, mutex, crashed >>

\* lines 382-388: the I/O burst's clock starts; core; inProcess = false; p = NULL
PpIo3(w) ==
    /\ ~crashed
    /\ wk[w].pc = "ppIo3"
    /\ \E g \in Garbage :
        proc' = [proc EXCEPT ![Held(w)] =
                    setCpuCore(updateProcess(resetBurstTimeElapsed(
                                   setBurstStartTime(@, now)), now, g), NoCore)]
    /\ wk' = [wk EXCEPT ![w].p = NULL, ![w].inProcess = FALSE,
                        ![w].lastContextTime = now, ![w].pc = "switch"]
    /\ WorkerFrame
    /\ UNCHANGED << ready_queue, terminated, mutex, crashed >>

Worker(w) ==
    \/ WorkerLoop(w)
    \/ WorkerPop(w)
    \/ WorkerSetRunning(w)
    \/ WorkerContextSwitch(w)
    \/ FcfsObserve(w)
    \/ FcfsTerminate1(w)
    \/ FcfsTerminate2(w)
    \/ FcfsIo1(w)
    \/ FcfsIo2(w)
    \/ FcfsIo3(w)
    \/ RrObserve(w)
    \/ RrTerminate1(w)
    \/ RrTerminate2(w)
    \/ RrIo1(w)
    \/ RrIo2(w)
    \/ RrIo3(w)
    \/ RrExpire1(w)
    \/ RrExpire2(w)
    \/ PpObserve(w)
    \/ PpLock(w)
    \/ PpSpin(w)
    \/ PpTerminate1(w)
    \/ PpTerminate2(w)
    \/ PpIo1(w)
    \/ PpIo2(w)
    \/ PpIo3(w)

Next ==
    \/ Tick
    \/ MainLock
    \/ MainSweep
    \/ MainTest
    \/ MainJoin
    \/ \E w \in Cores : Worker(w)

Spec == Init /\ [][Next]_vars

\* ======================================================================
\* Claims
\* ======================================================================
Running(p) == proc[p].state = "Running"
Count(seq, p) == Cardinality({i \in 1 .. Len(seq) : seq[i] = p})
Holders(p) == {w \in Cores : Held(w) = p}

\* C1: at every reachable state, for every core c, at most one process has
\* state Running and core c.
C1_OneRunningPerCore ==
    \A c \in Cores :
        Cardinality({p \in Procs : Running(p) /\ proc[p].core = c}) <= 1

\* C1 witness: both cores run a process at the same time.
C1_Witness ==
    \E p, q \in Procs :
        /\ Running(p) /\ proc[p].core = 0
        /\ Running(q) /\ proc[q].core = 1

\* C2: no process is held by two owners at once among the ready queue, the
\* terminated list and the current slots of the workers.
C2_SingleOwner ==
    \A p \in Procs :
        Count(ready_queue, p) + Count(terminated, p) + Cardinality(Holders(p)) <= 1

\* C3: current_burst is advanced exactly once per burst completion: the worker
\* advances it from a CPU burst (even index) on Running->IO, the coordinator
\* from an I/O burst (odd index) on IO->Ready, and no index is skipped.
C3_OncePerBurst ==
    [][\A p \in Procs :
          proc'[p].current_burst # proc[p].current_burst =>
              /\ proc'[p].current_burst = proc[p].current_burst + 1
              /\ (main' # main) => proc[p].current_burst % 2 = 1
              /\ (main' = main) => proc[p].current_burst % 2 = 0]_vars

\* C4: whenever the coordinator holds the scheduler mutex (sweep or reporter
\* snapshot), every process has core >= 0 if and only if it is Running.
C4_CoreIffRunning ==
    mutex = Main => \A p \in Procs : (proc[p].core >= 0) <=> Running(p)

\* The scheduling the threads get: the clock advances, and the operating
\* system runs the coordinator and every worker thread again and again.
Fairness ==
    /\ WF_vars(Tick)
    /\ WF_vars(MainLock \/ MainSweep \/ MainTest \/ MainJoin)
    /\ \A w \in Cores : WF_vars(Worker(w))
FairSpec == Init /\ [][Next]_vars /\ Fairness

Finished ==
    /\ all_terminated
    /\ \A p \in Procs : proc[p].state = "Terminated"
    /\ \A w \in Cores : wk[w].pc \in {"done", "absent"}
ClockExhausted == now = programStartTime + MaxTime

\* C5: under an advancing clock and fair thread scheduling, every process
\* eventually reaches Terminated, all_terminated becomes true and every
\* worker leaves its run loop (runs cut by the modelled clock horizon aside).
C5_EventuallyFinished == <>(Finished \/ ClockExhausted)

\* C6: all_terminated is true only when the terminated list holds as many
\* processes as were created and each of them is Terminated; once true it
\* never becomes false.
C6_AllTerminatedSound ==
    /\ [](all_terminated =>
            /\ Len(terminated) = Len(proc)
            /\ \A p \in Procs : proc[p].state = "Terminated")
    /\ [][all_terminated => all_terminated']_vars

\* C6 witness: the coordinator has seen every process terminated.
C6_Witness == all_terminated /\ Len(terminated) = Len(proc) /\ main.pc = "join"

LegalTransitions ==
    { << "NotStarted", "Ready" >>, << "Ready", "Running" >>,
      << "Running", "IO" >>, << "Running", "Ready" >>,
      << "Running", "Terminated" >>, << "IO", "Ready" >> }

\* C7: a process changes state only by NotStarted->Ready, Ready->Running,
\* Running->IO, Running->Ready, Running->Terminated or IO->Ready; a
\* Terminated process never changes state again.
C7_LegalTransitions ==
    [][\A p \in Procs :
          proc'[p].state # proc[p].state =>
              << proc[p].state, proc'[p].state >> \in LegalTransitions]_vars

\* C7 witness: a process with an I/O burst has gone the whole way to
\* Terminated while another one is already terminated too.
C7_Witness ==
    \E p, q \in Procs :
        /\ p # q
        /\ proc[p].num_bursts = 3 /\ proc[p].current_burst = 2
        /\ proc[p].state = "Terminated" /\ proc[q].state = "Terminated"

\* C8: a process with a single burst never enters IO and its current_burst
\* stays 0, whatever other processes ran earlier on the same worker.
C8_SingleBurstNeverIo ==
    \A p \in Procs :
        proc[p].num_bursts = 1 =>
            proc[p].state # "IO" /\ proc[p].current_burst = 0

\* A worker takes the head of the ready queue in this step.
Pops(w) == wk[w].pc = "pop" /\ wk'[w].pc = "setRunning"

\* C9: under SJF every dispatch, the first one included, takes a process
\* whose remaining CPU time is the smallest of the ready queue.
C9_SjfDispatchesShortest ==
    [][\A w \in Cores :
          (algorithm = "SJF" /\ Pops(w)) =>
              \A i \in 1 .. Len(ready_queue) :
                  proc[wk'[w].p].remain_time <= proc[ready_queue[i]].remain_time]_vars

\* C10: under PP, when a worker dispatches a process, no process of the ready
\* queue has a strictly smaller priority number.
C10_PpDispatchesMostUrgent ==
    [][\A w \in Cores :
          (algorithm = "PP" /\ Pops(w)) =>
              \A i \in 1 .. Len(ready_queue) :
                  ~ (proc[ready_queue[i]].priority < proc[wk'[w].p].priority)]_vars

\* s is t with elements pushed at its back, in the order of the coordinator's
\* loop over the processes when there is more than one.
PushedBack(s, t) ==
    /\ Len(s) <= Len(t)
    /\ SubSeq(t, 1, Len(s)) = s
    /\ \A i, j \in (Len(s) + 1) .. Len(t) : i < j => t[i] < t[j]

\* C11: under FCFS and RR the ready queue is never reordered: every step
\* either pushes at the back or takes the front, so processes are dispatched
\* in the order in which they were pushed.
C11_FifoQueue ==
    [][(algorithm = "FCFS" \/ algorithm = "RR") =>
          (PushedBack(ready_queue, ready_queue')
           \/ (ready_queue # << >> /\ ready_queue' = Tail(ready_queue)))]_vars

\* C11 witness: under FCFS or RR the first process waits behind the second,
\* after a requeue or an I/O completion.
C11_Witness == algorithm \in {"FCFS", "RR"} /\ ready_queue = << 2, 1 >>

\* No burst of the workload, CPU or I/O, lasts longer than the time slice.
SliceCoversBursts ==
    \A p \in Procs : \A i \in 0 .. (proc[p].num_bursts - 1) :
        proc[p].cpu_io_times[i] <= time_slice

\* C12: under RR with time_slice >= every burst duration of the workload no
\* process is ever moved Running->Ready (no slice expires), as under FCFS.
C12_NoSliceExpires ==
    [][(algorithm = "RR" /\ SliceCoversBursts) =>
          \A p \in Procs :
              ~ (proc[p].state = "Running" /\ proc'[p].state = "Ready")]_vars

\* A worker that holds no process and is polling the ready queue.
Idle(w) == Held(w) = NULL /\ wk[w].pc = "loop"

\* C13: under PP, while a core is idle no running process is preempted
\* (Running->Ready): a more urgent arrival goes to the idle core.
C13_NoPreemptionWithIdleCore ==
    [][(algorithm = "PP" /\ \E w \in Cores : Idle(w)) =>
          \A p \in Procs :
              ~ (proc[p].state = "Running" /\ proc'[p].state = "Ready")]_vars

\* Process p leaves its CPU burst by completion in this step.
Completes(p) ==
    proc[p].state = "Running" /\ proc'[p].state \in {"IO", "Terminated"}

\* C14: under RR and PP a process leaves a CPU burst by completion
\* (Running->IO or Running->Terminated) only when the time it was Running
\* within that burst, over all dispatch episodes, has reached the burst's
\* original duration: time spent Ready is not counted as executed.
C14_CompletionAfterFullBurst ==
    [][(accounting /\ (algorithm = "RR" \/ algorithm = "PP")) =>
          \A p \in Procs :
              (Completes(p) /\ proc[p].current_burst < proc[p].num_bursts) =>
                  ranFor[p][proc[p].current_burst]
                      >= proc[p].cpu_io_times[proc[p].current_burst]]_vars

\* The coordinator takes the mutex for a report and a sweep in this step.
Reports == main.pc = "lock" /\ main'.pc = "sweep"

\* C15: for every process the turnaround, wait and CPU times and current_burst
\* seen at successive observations under the mutex never decrease.
C15_FiguresNeverDecrease ==
    [][(accounting /\ Reports) =>
          \A p \in Procs :
              /\ shown[p].turn_time <= proc[p].turn_time
              /\ shown[p].wait_time <= proc[p].wait_time
              /\ shown[p].cpu_time <= proc[p].cpu_time
              /\ shown[p].current_burst <= proc[p].current_burst]_vars

\* C16: at every observation under the mutex every process has remaining
\* time >= 0, and its remaining time is 0 exactly when it is Terminated.
C16_RemainingTime ==
    mutex = Main =>
        \A p \in Procs :
            /\ proc[p].remain_time >= 0
            /\ (proc[p].remain_time = 0) <=> (proc[p].state = "Terminated")

\* C17: the turnaround anchor of a process is fixed at its first transition
\* to Ready and is not moved by later dispatches.
C17_TurnaroundAnchorFixed ==
    [][accounting =>
          \A p \in Procs :
              proc[p].state # "NotStarted" =>
                  proc'[p].launch_time = proc[p].launch_time]_vars

\* C18: the wait time of a process never exceeds the time the process has
\* actually been Ready, each Ready episode counting once.
C18_WaitWithinReadyTime ==
    accounting => \A p \in Procs : proc[p].wait_time <= readyFor[p]

\* The steps of main that read or write ready_queue, terminated or
\* all_terminated: the loop test (line 86) and the sweep (lines 95-144)
MainTouches == main' # main /\ main.pc \in {"test", "sweep"}

\* The steps of worker w that do: the loop test and the size read of lines
\* 228-233, the pop, and any step that changes one of the two lists
WorkerTouches(w) ==
    /\ wk'[w] # wk[w]
    /\ \/ wk[w].pc \in {"loop", "pop"}
       \/ ready_queue' # ready_queue
       \/ terminated' # terminated

\* C19: every read or write of ready_queue, terminated and all_terminated
\* is made by a thread holding the mutex, so none is made while another
\* thread holds it.
C19_SharedAccessUnderMutex ==
    [][(MainTouches => mutex \in {Free, Main})
       /\ (\A w \in Cores : WorkerTouches(w) => mutex \in {Free, Core(w)})]_vars

\* A worker is in the busy-wait that follows a yield.
BusyWaiting(w) == wk[w].pc \in {"switch", "ppSpin"}

\* C20: no worker holds the scheduler mutex while it executes the
\* context-switch busy-wait, so the others can take the mutex meanwhile.
C20_NoWaitUnderMutex ==
    \A w \in Cores : BusyWaiting(w) => mutex # Core(w)

\* Worker w executes the front()/pop_front() of lines 237-242
PopStep(w) ==
    /\ wk[w].pc = "pop"
    /\ wk'[w].pc = "setRunning" \/ crashed' # crashed

\* C21: a worker pops the front of the ready queue only when the queue is
\* non-empty at the moment of the pop, however many workers race for it.
C21_PopOnlyNonEmpty ==
    [][\A w \in Cores : PopStep(w) => ready_queue # << >>]_vars

\* Worker w runs the first observation of the process it has just popped
\* (lines 246-299 in the iteration of the pop)
DispatchStep(w) == wk[w].pc = "dispatch" /\ wk'[w].pc # "dispatch"

\* C22: under RR every dispatch records the slice start as the dispatch
\* time and takes the burst duration from the dispatched process, whatever
\* made the worker's previous process leave; so no process is requeued for
\* slice expiry at the very observation that dispatches it.
C22_SliceStartsAtDispatch ==
    [][\A w \in Cores :
          (algorithm = "RR" /\ DispatchStep(w)) =>
              LET p == Held(w)
              IN /\ proc'[p].roundRobinStartTime = now
                 /\ wk'[w].currentBurstTime =
                        At(proc[p].cpu_io_times, proc[p].num_bursts,
                           proc[p].current_burst, wk'[w].currentBurstTime)
                 /\ wk'[w].pc # "rrExpire1"]_vars

\* The tests of lines 299/311 and 365/379 on an observed process: its last
\* burst is used up, or it has run for longer than its current burst
BurstComplete(pr) ==
    \/ pr.remain_time <= 0
    \/ pr.burstTimeElapsed >
           At(pr.cpu_io_times, pr.num_bursts, pr.current_burst, Wrap)

\* C23: burst completion is evaluated before slice expiry and before
\* preemption: a running process whose current CPU burst is complete at an
\* observation is never requeued Running->Ready at that observation.
C23_CompletionBeforeRequeue ==
    [][\A p \in Procs :
          (proc[p].state = "Running" /\ proc'[p].state = "Ready") =>
              ~BurstComplete(proc[p])]_vars

\* C24: under PP a running process is requeued only if the head of the
\* ready queue, as it is when the decision is made under the mutex, has a
\* strictly smaller priority value; a head of equal priority never preempts.
C24_PreemptOnlyStrictlyUrgent ==
    [][(algorithm = "PP") =>
          \A p \in Procs :
              (proc[p].state = "Running" /\ proc'[p].state = "Ready") =>
                  /\ ready_queue # << >>
                  /\ proc[Head(ready_queue)].priority < proc[p].priority]_vars

\* C24 witness: a worker has compared its process with a queued head of
\* equal priority, has kept the process, and the process has run on.
C24_Witness ==
    /\ algorithm = "PP"
    /\ \E w \in Cores :
          /\ wk[w].pc = "loop" /\ wk[w].inProcess /\ Held(w) # NULL
          /\ proc[Held(w)].state = "Running"
          /\ proc[Held(w)].cpu_time > 0
          /\ ready_queue # << >>
          /\ proc[Head(ready_queue)].priority = proc[Held(w)].priority

\* C25: the half-done timestamp is recorded only at a sweep at which at
\* least half of the processes, rounded up, have terminated, and once only.
C25_HalfDoneAtHalf ==
    [][main'.half_time # main.half_time =>
          /\ 2 * Len(terminated) >= Len(proc)
          /\ main.half_time = 0]_vars

\* C26: at every slice expiry and every preemption the time run is taken
\* off the stored remainder of the current burst without wrapping around:
\* the remainder never grows at a requeue.
C26_BurstRemainderNeverWraps ==
    [][\A p \in Procs :
          (proc[p].state = "Running" /\ proc'[p].state = "Ready") =>
              \A i \in DOMAIN proc[p].burst_times :
                  proc'[p].burst_times[i] <= proc[p].burst_times[i]]_vars

\* C27: under FCFS and SJF no process ever goes from Running to Ready: a
\* dispatched process keeps its core until its CPU burst completes,
\* whatever arrives in the ready queue meanwhile.
C27_NoPreemptionWithoutPolicy ==
    [][(algorithm = "FCFS" \/ algorithm = "SJF") =>
          \A p \in Procs :
              ~ (proc[p].state = "Running" /\ proc'[p].state = "Ready")]_vars

\* C27 witness: under FCFS or SJF a process has been observed running, with
\* its burst unfinished, while a shorter job waits in the ready queue.
C27_Witness ==
    /\ algorithm \in {"FCFS", "SJF"}
    /\ \E p \in Procs :
          /\ proc[p].state = "Running"
          /\ proc[p].cpu_time > 0 /\ proc[p].remain_time > 0
          /\ ready_queue # << >>
          /\ proc[Head(ready_queue)].remain_time < proc[p].remain_time

\* No entry of the list q occurs in it twice
NoDuplicates(q) == \A i, j \in DOMAIN q : q[i] = q[j] => i = j

\* C28: whenever the mutex is free, every process in the ready queue is
\* Ready, every process in the terminated list is Terminated, neither list
\* holds a process twice, and the terminated list is no longer than the
\* list of processes.
C28_CollectionsConsistent ==
    mutex = Free =>
        /\ \A i \in DOMAIN ready_queue : proc[ready_queue[i]].state = "Ready"
        /\ \A i \in DOMAIN terminated : proc[terminated[i]].state = "Terminated"
        /\ NoDuplicates(ready_queue)
        /\ NoDuplicates(terminated)
        /\ Len(terminated) <= Len(proc)

\* C28 witness: with the mutex free, one process is in the terminated list
\* and another, which has run and was put back, waits in the ready queue.
C28_Witness ==
    /\ mutex = Free
    /\ terminated # << >>
    /\ \E i \in DOMAIN ready_queue :
          /\ proc[ready_queue[i]].cpu_time > 0
          /\ proc[ready_queue[i]].state = "Ready"

====
